---- MODULE Spec2Model ----
(***************************************************************************)
(* State-machine model of main.py, the Streamlit chat page of the Indian   *)
(* Legal Law Chatbot: the per-session state (st.session_state), the script *)
(* run that initialises and renders it, the on_change handler handle_input *)
(* and the request get_gemini_response hands to the Gemini client.         *)
(*                                                                         *)
(* Text is modelled as a sequence of one-character strings, so that        *)
(* str.strip(), f-string interpolation and substring containment are       *)
(* computed and not assumed.                                               *)
(***************************************************************************)
EXTENDS Integers, Sequences, FiniteSets, TLC

VARIABLES
    session_state,    \* st.session_state: a function from keys to values
    selected_domain,  \* value returned by st.sidebar.selectbox in the last script run
    pc,               \* "start": script never ran; "idle": waiting for the user;
                      \* "calling": handle_input is blocked in get_gemini_response
    request,          \* the request handed to the Gemini client, while in flight
    response,         \* what the Gemini client produced for the request in flight
    rendered,         \* chat history panel drawn by the last script run
    error,            \* exception that escaped the last handle_input, if any
    active,           \* number of handle_input invocations started and not finished
    entry_history,    \* history: the transcript when the last handle_input was entered
    failed_at         \* history: transcript positions of user messages whose fetch failed

vars ==
    << session_state, selected_domain, pc, request, response, rendered,
       error, active, entry_history, failed_at >>

-----------------------------------------------------------------------------
(* Bounds *)

\* Longest transcript explored.
MaxHistory == 4

-----------------------------------------------------------------------------
(* Constants of main.py *)

LEGAL_DOMAINS ==
    <<
      << "A", "l", "l", " ", "L", "a", "w", "s" >>,
      << "I", "P", "C", " ", "(", "I", "n", "d", "i", "a", "n", " ", "P", "e",
         "n", "a", "l", " ", "C", "o", "d", "e", ")" >>,
      << "C", "r", "P", "C", " ", "(", "C", "r", "i", "m", "i", "n", "a", "l",
         " ", "P", "r", "o", "c", "e", "d", "u", "r", "e", " ", "C", "o", "d",
         "e", ")" >>,
      << "C", "i", "v", "i", "l", " ", "L", "a", "w" >>,
      << "F", "a", "m", "i", "l", "y", " ", "L", "a", "w" >>,
      << "C", "y", "b", "e", "r", " ", "L", "a", "w" >>,
      << "C", "o", "n", "s", "t", "i", "t", "u", "t", "i", "o", "n", "a", "l",
         " ", "L", "a", "w" >>,
      << "C", "o", "n", "s", "u", "m", "e", "r", " ", "L", "a", "w" >>,
      << "P", "r", "o", "p", "e", "r", "t", "y", " ", "L", "a", "w" >>,
      << "L", "a", "b", "o", "u", "r", " ", "L", "a", "w" >>
    >>

\* The literal "All Laws" that get_gemini_response compares the domain with.
ALL_LAWS ==
    << "A", "l", "l", " ", "L", "a", "w", "s" >>

\* Option shown by the selectbox until the user picks another (index 0).
DefaultDomain ==
    LEGAL_DOMAINS[1]

\* The two literal pieces of system_prompt around {domain_text}.
InstructionHead ==
    << "Y", "o", "u", " ", "a", "r", "e", " ", "a", " ", "k", "n", "o", "w",
       "l", "e", "d", "g", "e", "a", "b", "l", "e", " ", "a", "n", "d", " ",
       "p", "r", "e", "c", "i", "s", "e", " ", "I", "n", "d", "i", "a", "n",
       " ", "l", "e", "g", "a", "l", " ", "a", "s", "s", "i", "s", "t", "a",
       "n", "t", ".", " ", "P", "r", "o", "v", "i", "d", "e", " ", "c", "o",
       "n", "c", "i", "s", "e", " ", "a", "n", "s", "w", "e", "r", "s", " ",
       "b", "a", "s", "e", "d", " ", "o", "n", " ", "I", "n", "d", "i", "a",
       "n", " ", "l", "a", "w" >>

InstructionTail ==
    << ".", " ", "I", "f", " ", "t", "h", "e", " ", "l", "a", "w", " ", "i",
       "s", " ", "u", "n", "c", "l", "e", "a", "r", ",", " ", "s", "a", "y",
       " ", "'", "P", "l", "e", "a", "s", "e", " ", "c", "o", "n", "s", "u",
       "l", "t", " ", "a", " ", "c", "e", "r", "t", "i", "f", "i", "e", "d",
       " ", "l", "a", "w", "y", "e", "r", " ", "f", "o", "r", " ", "t", "h",
       "i", "s", " ", "s", "p", "e", "c", "i", "f", "i", "c", " ", "c", "a",
       "s", "e", ".", "'", " ", "D", "o", " ", "n", "o", "t", " ", "f", "a",
       "b", "r", "i", "c", "a", "t", "e", " ", "a", "n", "y", " ", "l", "e",
       "g", "a", "l", " ", "r", "u", "l", "e", "s", "." >>

\* Characters str.strip() removes (single-line input: blank and tab).
Whitespace ==
    { " ", "\t" }

\* Texts the user types into the input box.
Texts ==
    { << >>, << " " >>, << "\t", " " >>, << "q" >>, << " ", "q", "?", " " >> }

\* Texts the Gemini client returns as response.text.
Replies ==
    { << >>, << "o", "k" >> }

-----------------------------------------------------------------------------
(* Pure functions *)

RECURSIVE lstrip(_)
lstrip(s) ==
    IF s # << >> /\ Head(s) \in Whitespace THEN lstrip(Tail(s)) ELSE s

RECURSIVE rstrip(_)
rstrip(s) ==
    IF s # << >> /\ s[Len(s)] \in Whitespace
    THEN rstrip(SubSeq(s, 1, Len(s) - 1))
    ELSE s

\* str.strip()
strip(s) ==
    rstrip(lstrip(s))

\* Faulty variant of input_accepted: "if user_input:" without strip().
input_accepted_unstripped(user_input) ==
    user_input # << >>

\* truth value of the condition tested by "if user_input.strip():"
input_accepted(user_input) ==
    strip(user_input) # << >>

\* Faulty variant of domain_text: the sentinel is not excluded.
domain_text_unconditional(legal_domain) ==
    IF legal_domain # << >>
    THEN << " ", "(" >> \o legal_domain \o << ")" >>
    ELSE << >>

\* domain_text = f" ({legal_domain})" if legal_domain and legal_domain != "All Laws" else ""
domain_text(legal_domain) ==
    IF legal_domain # << >> /\ legal_domain # ALL_LAWS
    THEN << " ", "(" >> \o legal_domain \o << ")" >>
    ELSE << >>

system_prompt(legal_domain) ==
    InstructionHead \o domain_text(legal_domain) \o InstructionTail

UserMessage(content) ==
    [role |-> "user", content |-> content]

AssistantMessage(content) ==
    [role |-> "assistant", content |-> content]

NoRequest ==
    [history |-> << >>, message |-> << >>]

NoResponse ==
    [kind |-> "none", text |-> << >>]

\* Faulty variant of get_gemini_response: the instruction is inserted into the
\* caller's list (messages.insert(0, ...)) instead of into a new list.
get_gemini_response_insert(messages, legal_domain) ==
    LET inserted == << UserMessage(system_prompt(legal_domain)) >> \o messages
        history  == [i \in 1..Len(inserted) |->
                        [role |-> inserted[i].role, parts |-> << inserted[i].content >>]]
    IN  [messages |-> inserted, raised |-> "none",
         request  |-> [history |-> history,
                       message |-> inserted[Len(inserted)].content]]

\* get_gemini_response up to the point where the client is invoked.  The list
\* is passed by reference, so the result carries the list as the function
\* leaves it.  messages[-1] on an empty list raises IndexError.
get_gemini_response(messages, legal_domain) ==
    LET history ==
            << [role |-> "user", parts |-> << system_prompt(legal_domain) >>] >>
            \o [i \in 1..Len(messages) |->
                    [role |-> messages[i].role, parts |-> << messages[i].content >>]]
    IN  IF messages = << >>
        THEN [messages |-> messages, raised |-> "IndexError", request |-> NoRequest]
        ELSE [messages |-> messages, raised |-> "none",
              request  |-> [history |-> history,
                            message |-> messages[Len(messages)].content]]

\* Faulty variant of InitSession: the "not in st.session_state" tests are missing.
InitSession_reset(ss) ==
    ("chat_history" :> << >>) @@ ("input_key" :> 0) @@
    ("user_input" :> IF "user_input" \in DOMAIN ss THEN ss["user_input"] ELSE << >>)

\* Session-state initialisation done by every script run, and the registration
\* of the text_input widget under key "user_input".
InitSession(ss) ==
    LET s1 == IF "chat_history" \notin DOMAIN ss THEN ss @@ ("chat_history" :> << >>) ELSE ss
        s2 == IF "input_key" \notin DOMAIN s1 THEN s1 @@ ("input_key" :> 0) ELSE s1
    IN  IF "user_input" \notin DOMAIN s2 THEN s2 @@ ("user_input" :> << >>) ELSE s2

\* The chat history panel: one styled block per message.
RenderHistory(chat_history) ==
    [i \in 1..Len(chat_history) |->
        IF chat_history[i].role = "user"
        THEN << "chat-user", chat_history[i].content >>
        ELSE << "chat-assistant", chat_history[i].content >>]

\* Faulty variant of handle_input_call: the question is passed to the fetcher
\* in a temporary list and never stored in the session.
handle_input_call_unstored(ss, domain) ==
    LET user_input == ss["user_input"]
    IN  IF input_accepted(user_input)
        THEN LET call == get_gemini_response(
                             Append(ss["chat_history"], UserMessage(user_input)), domain)
             IN  [state   |-> ss,
                  called  |-> call.raised = "none",
                  raised  |-> call.raised,
                  request |-> call.request]
        ELSE [state |-> ss, called |-> FALSE, raised |-> "none", request |-> NoRequest]

\* Faulty variant of handle_input_call: the fetcher is called before the
\* question is appended.
handle_input_call_early(ss, domain) ==
    LET user_input == ss["user_input"]
    IN  IF input_accepted(user_input)
        THEN LET call == get_gemini_response(ss["chat_history"], domain)
             IN  [state   |-> [ss EXCEPT !["chat_history"] =
                                   Append(call.messages, UserMessage(user_input))],
                  called  |-> call.raised = "none",
                  raised  |-> call.raised,
                  request |-> call.request]
        ELSE [state |-> ss, called |-> FALSE, raised |-> "none", request |-> NoRequest]

\* handle_input from its entry to the call of the Gemini client.
handle_input_call(ss, domain) ==
    LET user_input == ss["user_input"]
    IN  IF input_accepted(user_input)
        THEN LET appended == Append(ss["chat_history"], UserMessage(user_input))
                 call     == get_gemini_response(appended, domain)
             IN  [state   |-> [ss EXCEPT !["chat_history"] = call.messages],
                  called  |-> call.raised = "none",
                  raised  |-> call.raised,
                  request |-> call.request]
        ELSE [state |-> ss, called |-> FALSE, raised |-> "none", request |-> NoRequest]

\* Faulty variant of handle_input_return: the reply is inserted before the
\* question it answers.
handle_input_return_misplaced(ss, resp) ==
    IF resp.kind = "text"
    THEN LET h == ss["chat_history"]
         IN  [state  |-> [ss EXCEPT !["chat_history"] =
                              SubSeq(h, 1, Len(h) - 1)
                              \o << AssistantMessage(resp.text), h[Len(h)] >>,
                          !["user_input"] = << >>],
              raised |-> "none"]
    ELSE [state |-> ss, raised |-> "ExternalServiceFailure"]

\* Faulty variant of handle_input_return: a failure of the client is caught and
\* answered with a fallback reply.
handle_input_return_fallback(ss, resp) ==
    IF resp.kind = "text"
    THEN [state  |-> [ss EXCEPT !["chat_history"] = Append(@, AssistantMessage(resp.text)),
                                !["user_input"]   = << >>],
          raised |-> "none"]
    ELSE [state  |-> [ss EXCEPT !["chat_history"] = Append(@, AssistantMessage(<< "?" >>)),
                                !["user_input"]   = << >>],
          raised |-> "none"]

\* handle_input from the return (or exception) of the Gemini client to its end.
handle_input_return(ss, resp) ==
    IF resp.kind = "text"
    THEN [state  |-> [ss EXCEPT !["chat_history"] = Append(@, AssistantMessage(resp.text)),
                                !["user_input"]   = << >>],
          raised |-> "none"]
    ELSE [state |-> ss, raised |-> "ExternalServiceFailure"]

-----------------------------------------------------------------------------
(* State *)

Transcript ==
    IF "chat_history" \in DOMAIN session_state THEN session_state["chat_history"] ELSE << >>

InputSlot ==
    IF "user_input" \in DOMAIN session_state THEN session_state["user_input"] ELSE << >>

Init ==
    /\ session_state = [k \in {} |-> << >>]
    /\ selected_domain = DefaultDomain
    /\ pc = "start"
    /\ request = NoRequest
    /\ response = NoResponse
    /\ rendered = << >>
    /\ error = "none"
    /\ active = 0
    /\ entry_history = << >>
    /\ failed_at = {}

\* One run of the script from top to bottom with the selectbox returning d:
\* the first page load (d is the default option) or a rerun after the user
\* picked a domain.
ScriptRun(d) ==
    /\ pc \in {"start", "idle"}
    /\ pc = "start" => d = DefaultDomain
    /\ selected_domain' = d
    /\ session_state' = InitSession(session_state)
    /\ rendered' = RenderHistory(session_state'["chat_history"])
    /\ error' = "none"
    /\ pc' = "idle"
    /\ UNCHANGED << request, response, active, entry_history, failed_at >>

\* Faulty variant of HandleInput: a submission is accepted while an earlier
\* one is still waiting for the client.
HandleInput_reentrant(text) ==
    /\ pc \in {"idle", "calling"}
    /\ text # session_state["user_input"]
    /\ LET ss  == [session_state EXCEPT !["user_input"] = text]
           res == handle_input_call(ss, selected_domain)
       IN  /\ input_accepted(text) => Len(session_state["chat_history"]) + 2 <= MaxHistory
           /\ entry_history' = session_state["chat_history"]
           /\ session_state' = res.state
           /\ request' = IF res.called THEN res.request ELSE request
           /\ IF res.called
              THEN /\ pc' = "calling"
                   /\ active' = active + 1
                   /\ UNCHANGED << rendered, error >>
              ELSE /\ pc' = pc
                   /\ active' = active
                   /\ error' = res.raised
                   /\ rendered' = IF res.raised = "none"
                                  THEN RenderHistory(res.state["chat_history"])
                                  ELSE rendered
    /\ UNCHANGED << selected_domain, response, failed_at >>

\* The user types text and presses Enter: the widget stores the text under
\* "user_input" and, the value having changed, runs handle_input.  A handler
\* that returns normally is followed by a rerun of the script.
HandleInput(text) ==
    /\ pc = "idle"
    /\ text # session_state["user_input"]
    /\ LET ss  == [session_state EXCEPT !["user_input"] = text]
           res == handle_input_call(ss, selected_domain)
       IN  /\ input_accepted(text) => Len(session_state["chat_history"]) + 2 <= MaxHistory
           /\ entry_history' = session_state["chat_history"]
           /\ session_state' = res.state
           /\ request' = res.request
           /\ IF res.called
              THEN /\ pc' = "calling"
                   /\ active' = active + 1
                   /\ UNCHANGED << rendered, error >>
              ELSE /\ pc' = "idle"
                   /\ active' = active
                   /\ error' = res.raised
                   /\ rendered' = IF res.raised = "none"
                                  THEN RenderHistory(res.state["chat_history"])
                                  ELSE rendered
    /\ UNCHANGED << selected_domain, response, failed_at >>

\* chat.send_message returns and response.text is r.
GeminiRespond(r) ==
    /\ request # NoRequest
    /\ response = NoResponse
    /\ response' = [kind |-> "text", text |-> r]
    /\ UNCHANGED << session_state, selected_domain, pc, request, rendered,
                    error, active, entry_history, failed_at >>

\* chat.send_message raises (network, authentication, quota, malformed reply).
GeminiRaise ==
    /\ request # NoRequest
    /\ response = NoResponse
    /\ response' = [kind |-> "error", text |-> << >>]
    /\ UNCHANGED << session_state, selected_domain, pc, request, rendered,
                    error, active, entry_history, failed_at >>

\* handle_input continues after the call: it appends the reply and clears
\* the input, after which the script reruns; or the exception leaves it.
HandleInputResume ==
    /\ pc = "calling"
    /\ response # NoResponse
    /\ LET res == handle_input_return(session_state, response)
       IN  /\ session_state' = res.state
           /\ error' = res.raised
           /\ rendered' = IF res.raised = "none"
                          THEN RenderHistory(res.state["chat_history"])
                          ELSE rendered
           /\ failed_at' = IF response.kind = "error"
                           THEN failed_at \cup { Len(session_state["chat_history"]) }
                           ELSE failed_at
    /\ pc' = "idle"
    /\ active' = active - 1
    /\ request' = NoRequest
    /\ response' = NoResponse
    /\ UNCHANGED << selected_domain, entry_history >>

Next ==
    \/ \E d \in { LEGAL_DOMAINS[i] : i \in 1..Len(LEGAL_DOMAINS) } : ScriptRun(d)
    \/ \E text \in Texts : HandleInput(text)
    \/ \E r \in Replies : GeminiRespond(r)
    \/ GeminiRaise
    \/ HandleInputResume

Spec ==
    Init /\ [][Next]_vars

-----------------------------------------------------------------------------
(* Vocabulary of the properties *)

IsPrefix(s, t) ==
    Len(s) <= Len(t) /\ \A i \in 1..Len(s) : t[i] = s[i]

\* sub occurs in s as a contiguous run of characters
Contains(s, sub) ==
    \E k \in 0..(Len(s) - Len(sub)) : \A j \in 1..Len(sub) : s[k + j] = sub[j]

Last(s) ==
    s[Len(s)]

\* a text str.strip() reduces to the empty string
IsBlank(s) ==
    \A i \in 1..Len(s) : s[i] \in Whitespace

\* What the Gemini client transmits for a request: the chat history given to
\* start_chat, followed by the message given to send_message as a user turn.
PromptEntries(req) ==
    req.history \o << [role |-> "user", parts |-> << req.message >>] >>

PromptEntry(msg) ==
    [role |-> msg.role, parts |-> << msg.content >>]

Labels ==
    { LEGAL_DOMAINS[i] : i \in 1..Len(LEGAL_DOMAINS) }

-----------------------------------------------------------------------------
(* Properties *)

\* C1: a submission whose text is not blank and whose external call succeeds
\* grows the transcript by exactly two messages: the user message holding the
\* submitted text when the handler starts, then the assistant message holding
\* the reply when it resumes, and nothing else, whatever the transcript was on
\* entry.
C1_SuccessAppendsUserThenAssistant ==
    [][ /\ (pc = "idle" /\ pc' = "calling") =>
              /\ ~IsBlank(InputSlot')
              /\ entry_history' = Transcript
              /\ Transcript' = Append(Transcript, UserMessage(InputSlot'))
        /\ (pc = "calling" /\ response.kind = "text" /\ pc' # "calling") =>
              /\ Transcript' = entry_history
                     \o << UserMessage(InputSlot), AssistantMessage(response.text) >>
              /\ Len(Transcript') = Len(entry_history) + 2
      ]_vars

\* C1 witness: a successful submission completed on a transcript that ended
\* with an orphan user message.
C1_Witness ==
    /\ pc = "idle"
    /\ error = "none"
    /\ entry_history # << >>
    /\ Last(entry_history).role = "user"
    /\ Len(Transcript) = Len(entry_history) + 2
    /\ Last(Transcript).role = "assistant"

\* C2: a submission whose text is empty or only whitespace leaves the
\* transcript unchanged, puts no request in flight and changes nothing in the
\* session state besides the widget's own value.
C2_BlankSubmissionIsNoOp ==
    [][ (pc = "idle" /\ InputSlot' # InputSlot /\ IsBlank(InputSlot')) =>
            /\ Transcript' = Transcript
            /\ session_state' = [session_state EXCEPT !["user_input"] = InputSlot']
            /\ pc' = "idle"
            /\ request' = NoRequest
            /\ response' = NoResponse
            /\ active' = active
            /\ error' = "none"
      ]_vars

\* C2 witness: a whitespace-only text was submitted on a non-empty transcript.
C2_Witness ==
    /\ pc = "idle"
    /\ InputSlot # << >>
    /\ IsBlank(InputSlot)
    /\ Transcript # << >>

\* C3: when the external call fails, the handler ends with the user message
\* as the last element of the transcript, no assistant message appended, the
\* input slot still holding the submitted text, the failure escaping the
\* handler, and no further request issued.
C3_FailureLeavesOrphanAndInput ==
    [][ (pc = "calling" /\ response.kind = "error" /\ response' # response) =>
            /\ Transcript' = Append(entry_history, UserMessage(InputSlot'))
            /\ InputSlot' = InputSlot
            /\ ~IsBlank(InputSlot')
            /\ error' = "ExternalServiceFailure"
            /\ pc' = "idle"
            /\ request' = NoRequest
            /\ active' = 0
      ]_vars

\* C3 witness: a failed submission has ended.
C3_Witness ==
    /\ pc = "idle"
    /\ error = "ExternalServiceFailure"
    /\ Last(Transcript) = UserMessage(InputSlot)
    /\ Len(Transcript) \in failed_at

\* C4: the first entry of every request is the fixed system instruction; it
\* contains the label of the selected domain exactly when that domain is not
\* "All Laws", and with "All Laws" it is the bare instruction, containing no
\* label and no parenthesis.
C4_InstructionCarriesDomain ==
    pc = "calling" =>
        LET first       == request.history[1]
            instruction == first.parts[1]
        IN  /\ first.role = "user"
            /\ Len(first.parts) = 1
            /\ IsPrefix(InstructionHead, instruction)
            /\ SubSeq(instruction, Len(instruction) - Len(InstructionTail) + 1,
                      Len(instruction)) = InstructionTail
            /\ Contains(instruction, selected_domain) <=> selected_domain # ALL_LAWS
            /\ selected_domain # ALL_LAWS =>
                  instruction = InstructionHead \o << " ", "(" >> \o selected_domain
                                    \o << ")" >> \o InstructionTail
            /\ selected_domain = ALL_LAWS =>
                  /\ instruction = InstructionHead \o InstructionTail
                  /\ \A d \in Labels : ~Contains(instruction, d)
                  /\ ~Contains(instruction, << "(" >>)

\* C4 witness: a request built for a domain other than the sentinel on a
\* transcript with earlier messages.
C4_Witness ==
    /\ pc = "calling"
    /\ selected_domain = LEGAL_DOMAINS[2]
    /\ Len(entry_history) >= 2

\* C5: for a question submitted on a transcript of n messages, what is handed
\* to the external model has exactly n+2 entries: the instruction, the n
\* earlier messages in order, then the question, once.
C5_PromptHasNPlusTwoEntries ==
    pc = "calling" =>
        LET prompt   == PromptEntries(request)
            n        == Len(entry_history)
            question == [role |-> "user", parts |-> << InputSlot >>]
        IN  /\ Len(prompt) = n + 2
            /\ prompt[1] = [role |-> "user", parts |-> << system_prompt(selected_domain) >>]
            /\ \A i \in 1..n : prompt[i + 1] = PromptEntry(entry_history[i])
            /\ prompt[Len(prompt)] = question
            /\ Cardinality({ i \in (n + 2)..Len(prompt) : prompt[i] = question }) = 1

\* C6: while get_gemini_response is running, and after the client has
\* answered or failed, the transcript is exactly what the caller built (the
\* transcript on entry plus the user message); no transcript message ever
\* holds the system instruction or a domain label.
C6_FetcherLeavesTranscript ==
    /\ pc = "calling" => Transcript = Append(entry_history, UserMessage(InputSlot))
    /\ \A i \in 1..Len(Transcript) : \A d \in Labels :
            /\ Transcript[i].content # d
            /\ Transcript[i].content # system_prompt(d)
            /\ ~Contains(Transcript[i].content, InstructionHead)

\* C6 witness: the client has failed for a request built on a non-empty
\* transcript, and the handler has not resumed yet.
C6_Witness ==
    /\ pc = "calling"
    /\ response.kind = "error"
    /\ entry_history # << >>

\* C7: the transcript only grows at its end: in every step the old transcript
\* is a prefix of the new one, script runs included.
C7_TranscriptAppendOnly ==
    [][ IsPrefix(Transcript, Transcript') ]_vars

\* C7 witness: the script has run again after a failed submission, on a
\* transcript of at least three messages, and drawn all of them.
C7_Witness ==
    /\ pc = "idle"
    /\ error = "none"
    /\ Len(Transcript) >= 3
    /\ Len(Transcript) \in failed_at
    /\ rendered = RenderHistory(Transcript)

C9_TranscriptShape ==
    LET t == Transcript
    IN  /\ t # << >> => t[1].role = "user"
        /\ \A i \in 2..Len(t) : t[i].role = "assistant" => t[i - 1].role = "user"
        /\ \A i \in 1..(Len(t) - 1) :
               (t[i].role = "user" /\ t[i + 1].role = "user") => i \in failed_at
        /\ (failed_at = {} /\ pc # "calling") =>
               /\ Len(t) % 2 = 0
               /\ \A i \in 1..Len(t) :
                      t[i].role = IF i % 2 = 1 THEN "user" ELSE "assistant"

\* C9 witness: two adjacent user messages followed by an answered one.
C9_Witness ==
    /\ Len(Transcript) = 4
    /\ Transcript[1].role = "user"
    /\ Transcript[2].role = "user"
    /\ Transcript[3].role = "user"
    /\ Transcript[4].role = "assistant"

\* C10: whenever a request is in flight the transcript is non-empty and ends
\* with the user message holding the text just submitted, which is also the
\* message sent (reading the last message never fails); an assistant message
\* is appended only once the client has returned a text; the input slot is
\* cleared only in the step that has appended the assistant message.
C10_StepOrder ==
    /\ [](/\ error # "IndexError"
          /\ request # NoRequest =>
                /\ Transcript # << >>
                /\ Last(Transcript) = UserMessage(InputSlot)
                /\ ~IsBlank(InputSlot)
                /\ request.message = InputSlot
                /\ Last(request.history) = PromptEntry(Last(Transcript)))
    /\ [][ /\ (Len(Transcript') > Len(Transcript) /\ Last(Transcript').role = "assistant") =>
                 /\ pc = "calling"
                 /\ request # NoRequest
                 /\ response.kind = "text"
           /\ (pc = "calling" /\ InputSlot' # InputSlot) =>
                 /\ InputSlot' = << >>
                 /\ Transcript' = Append(Transcript, AssistantMessage(response.text))
         ]_vars

\* C10 witness: the handler has appended the reply and cleared the input of a
\* submission made on a transcript that already held an exchange.
C10_Witness ==
    /\ pc = "idle"
    /\ InputSlot = << >>
    /\ Len(entry_history) >= 2
    /\ Len(Transcript) = Len(entry_history) + 2
    /\ Last(Transcript).role = "assistant"

====
